---- MODULE Spec2Model ----
(***************************************************************************)
(* Model of the repository-scoped command gateway of git-mcp-go            *)
(* (pkg/server.go, multi-repository version): the repository registry,     *)
(* the path guard, tool registration and the tool handlers, over a small   *)
(* filesystem that records which directories carry a .git directory.       *)
(*                                                                         *)
(* Paths are strings, modelled as sequences of one-character strings, so   *)
(* that strings.HasPrefix and filepath.Abs are computed on the characters. *)
(***************************************************************************)
EXTENDS Integers, Sequences, FiniteSets, TLC

\* Bound on the length of the registry (configured paths plus appended ones).
MaxRepos == 2

(***************************************************************************)
(* Strings and paths                                                       *)
(***************************************************************************)

\* The process working directory, used by filepath.Abs for relative paths.
Cwd == <<"/", "a">>

\* strings.HasPrefix(s, prefix)
HasPrefix(s, prefix) ==
    /\ Len(prefix) <= Len(s)
    /\ SubSeq(s, 1, Len(prefix)) = prefix

\* strings.Split(path, "/") without the empty elements.
RECURSIVE SplitPath(_, _, _)
SplitPath(s, cur, acc) ==
    IF s = <<>>
    THEN IF cur = <<>> THEN acc ELSE Append(acc, cur)
    ELSE IF Head(s) = "/"
         THEN SplitPath(Tail(s), <<>>, IF cur = <<>> THEN acc ELSE Append(acc, cur))
         ELSE SplitPath(Tail(s), Append(cur, Head(s)), acc)

\* The lexical processing of filepath.Clean on a rooted path: "." elements
\* are dropped, ".." removes the preceding element (and is dropped at the root).
RECURSIVE ResolveDots(_, _)
ResolveDots(cs, out) ==
    IF cs = <<>> THEN out
    ELSE IF Head(cs) = <<".">> THEN ResolveDots(Tail(cs), out)
    ELSE IF Head(cs) = <<".", ".">>
         THEN ResolveDots(Tail(cs), IF out = <<>> THEN <<>> ELSE SubSeq(out, 1, Len(out) - 1))
         ELSE ResolveDots(Tail(cs), Append(out, Head(cs)))

\* Joins path elements into a rooted path; no elements give "/".
RECURSIVE JoinRooted(_)
JoinRooted(cs) ==
    IF cs = <<>> THEN <<"/">>
    ELSE IF Len(cs) = 1 THEN <<"/">> \o Head(cs)
    ELSE <<"/">> \o Head(cs) \o JoinRooted(Tail(cs))

\* filepath.Clean on a rooted path.
Clean(p) == JoinRooted(ResolveDots(SplitPath(p, <<>>, <<>>), <<>>))

\* filepath.IsAbs
IsAbs(p) == p # <<>> /\ Head(p) = "/"

\* filepath.Abs: a rooted path is cleaned, a relative one is joined to the
\* working directory and cleaned.
Abs(p) == IF IsAbs(p) THEN Clean(p) ELSE Clean(Cwd \o <<"/">> \o p)

\* filepath.Base of a clean rooted path.
Base(p) ==
    LET cs == SplitPath(p, <<>>, <<>>)
    IN IF cs = <<>> THEN <<"/">> ELSE cs[Len(cs)]

\* The repo_path strings a caller sends: empty, a root, a sibling whose name
\* extends the root's name, a subdirectory, a relative path and an unclean one.
PathInputs ==
    { <<>>,
      <<"/", "a">>,
      <<"/", "a", "b">>,
      <<"/", "a", "/", "b">>,
      <<"b">>,
      <<"/", "a", "/", "b", "/", ".", ".">> }

\* The directories of the filesystem: every absolute path an input resolves to.
AbsPaths == { Abs(p) : p \in PathInputs \ {<<>>} }

\* Sequences over S of length at most n.
SeqUpTo(S, n) == UNION { [1..k -> S] : k \in 0..n }

Range(s) == { s[i] : i \in 1..Len(s) }

(***************************************************************************)
(* State                                                                   *)
(***************************************************************************)
VARIABLES
    repoPaths,    \* GitServer.repoPaths: the registry, a sequence of paths
    writeAccess,  \* GitServer.writeAccess
    gitOps,       \* GitServer.gitOps: "shell" or "go-git"
    tools,        \* names of the tools added to the MCP server
    dotGit,       \* filesystem: for each directory, what its .git entry is:
                  \* "none", "dir" (a repository) or "file" (a gitlink file)
    last,         \* the call being answered: its arguments and what the
                  \* handler returned; NoCall between calls
    justInit,     \* the path of a successful git_init at a path outside every
                  \* registered repository, until the call that follows it
                  \* has been answered; <<>> otherwise
    allRepoPaths, \* serveCmd.Run's allRepoPaths: the paths given on the command
                  \* line; <<>> once the server serves (the list is not kept)
    phase,        \* where serveCmd.Run is: "start", "exited" (os.Exit(1)),
                  \* "constructed" (NewGitServer returned) or "serving"
    \* Handlers running concurrently, one per goroutine:
    pc,           \* where each goroutine is in its handler
    req,          \* the call each goroutine serves: tool and path
    loc,          \* each goroutine's locals: the slice value append read from
                  \* s.repoPaths, and the guard's verdict
    \* The content of one repository and of its remote:
    heads,        \* local branches: the commit each branch name points at (0: none)
    head,         \* HEAD: the name of the current branch
    origin,       \* the branches of the remote "origin": commit per name (0: none)
    parent,       \* parent[c] is the parent of commit c (0 for a root commit)
    out,          \* the result of the operation being answered
    pre,          \* heads, head, origin and staged as they were before that operation
    staged,       \* the files of the working tree that are staged in the index
    \* The setup command:
    setupTools,   \* strings.Split(tool, ","): the entries of the --tool flag
    autoApprove,  \* the --auto-approve flag
    toolIdx,      \* the position of the loop over setupTools
    hasErrors,    \* setupCmd.Run's hasErrors
    processed,    \* what became of each entry processed so far
    settings,     \* per assistant, the "git" entry of its MCP settings file
    exitCode      \* "running", or the exit code of the process: 0 or 1

serverVars == <<repoPaths, writeAccess, gitOps, tools, dotGit, last, justInit,
                allRepoPaths, phase>>
concVars == <<pc, req, loc>>
contentVars == <<heads, head, origin, parent, out, pre, staged>>
setupVars == <<setupTools, autoApprove, toolIdx, hasErrors, processed, settings, exitCode>>

vars == <<serverVars, concVars, contentVars, setupVars>>

(***************************************************************************)
(* Arguments of a call: request.Params.Arguments                           *)
(***************************************************************************)

Absent == [kind |-> "absent", val |-> <<>>]
\* A value that is not a string, for instance a JSON number.
NotString == [kind |-> "other", val |-> <<>>]
Str(s) == [kind |-> "str", val |-> s]

\* v.(string) with the comma-ok form: the string, or "" and false.
AsString(v) == [s |-> IF v.kind = "str" THEN v.val ELSE <<>>, ok |-> v.kind = "str"]

RepoPathArgs == {Absent, NotString} \cup { Str(p) : p \in PathInputs }

\* The tool-specific required argument (target, message, files, branch_name,
\* revision, patch_string, patch_file): absent, not a string, a blank string
\* or a non-blank string.
ToolArgs == {Absent, NotString, Str(<<" ">>), Str(<<"x">>)}

Requests == [repo_path : RepoPathArgs, arg : ToolArgs]

\* strings.TrimSpace(s) == ""
IsBlank(s) == \A i \in 1..Len(s) : s[i] = " "

(***************************************************************************)
(* Results of a call                                                       *)
(***************************************************************************)

NoBackend == [op |-> "", path |-> <<>>, ok |-> FALSE]

\* The record of a call: the tool, its arguments, the handler's error return
\* value ("nil" or an error), whether the tool result is an error result, the
\* leading text of the result, the path guard's error and the path it names
\* (or the resolved repository path), the backend method invoked (if any) with
\* its path and outcome, the entries listed by git_list_repositories with the
\* number shown in its header, and the repository path written into the text
\* of the result (<<>> when the text carries none).
Res(tool, args) ==
    [tool |-> tool, args |-> args, handlerErr |-> "nil", isError |-> FALSE,
     msg |-> "", pathErr |-> "", path |-> <<>>, backend |-> NoBackend,
     listing |-> <<>>, count |-> 0, textPath |-> <<>>]

NoCall == Res("", [repo_path |-> Absent, arg |-> Absent])

\* A handler that returns the path error as its error value (return nil, err).
PathError_AsFault(tool, args, v) ==
    [Res(tool, args) EXCEPT !.handlerErr = v.err, !.pathErr = v.err, !.path = v.named]

\* mcp.NewToolResultError(fmt.Sprintf("Repository path error: %v", err)), nil
PathError(tool, args, v) ==
    [Res(tool, args) EXCEPT !.isError = TRUE, !.msg = "Repository path error",
                            !.pathErr = v.err, !.path = v.named]

\* mcp.NewToolResultError(text), nil
ErrorResult(tool, args, text) ==
    [Res(tool, args) EXCEPT !.isError = TRUE, !.msg = text]

\* An error result returned after the repository was resolved to repoPath.
ArgError(tool, args, repoPath, text) ==
    [Res(tool, args) EXCEPT !.isError = TRUE, !.msg = text, !.path = repoPath]

\* The handlers whose success text is built with repoPath ("Repository status
\* for %s:", "Unstaged changes for %s:", "Staged changes for %s:", "Diff with
\* %s for %s:", "Commit history for %s:"), and git_init, whose backend text
\* names the .git directory it made; every other handler returns the
\* backend's text as it is.
TextNamesRepoPath(tool) ==
    tool \in { "git_status", "git_diff_unstaged", "git_diff_staged", "git_diff",
               "git_log", "git_init" }

\* The results of a handler after its backend call: an error result
\* "Failed to ...: <err>" when the backend failed, else a text result.
BackendResults(tool, args, repoPath, op, outcomes, failText, okText) ==
    { [Res(tool, args) EXCEPT !.isError = ~ok,
                              !.msg = IF ok THEN okText ELSE failText,
                              !.path = repoPath,
                              !.textPath = IF ok /\ TextNamesRepoPath(tool)
                                           THEN repoPath ELSE <<>>,
                              !.backend = [op |-> op, path |-> repoPath, ok |-> ok]]
      : ok \in outcomes }

(***************************************************************************)
(* Construction                                                            *)
(***************************************************************************)

\* os.Stat(filepath.Join(absPath, ".git")) succeeds and info.IsDir() holds.
HasGitDir(fs, absPath) == fs[absPath] = "dir"

\* os.Stat(filepath.Join(absPath, ".git")) fails with os.IsNotExist.
DotGitNotExist(fs, absPath) == fs[absPath] = "none"

\* NewGitServer: the normalization loop over the configured paths.
RECURSIVE NormalizePaths(_, _, _)
NormalizePaths(configured, fs, normalizedPaths) ==
    IF configured = <<>> THEN normalizedPaths
    ELSE LET path == Head(configured)
             absPath == Abs(path)
         IN IF path = <<>>
            THEN NormalizePaths(Tail(configured), fs, normalizedPaths)
            ELSE IF HasGitDir(fs, absPath)
                 THEN NormalizePaths(Tail(configured), fs, Append(normalizedPaths, absPath))
                 ELSE NormalizePaths(Tail(configured), fs, normalizedPaths)

NewGitServer(configured, fs) == NormalizePaths(configured, fs, <<>>)

\* A start-up that gives up when no configured path is a repository.
serveCmdRun_ExitWhenNoneValid(paths, fs) ==
    IF Len(paths) = 0 \/ NewGitServer(paths, fs) = <<>>
    THEN [phase |-> "exited", repoPaths |-> <<>>]
    ELSE [phase |-> "constructed", repoPaths |-> NewGitServer(paths, fs)]

\* serveCmd.Run up to the construction of the server: os.Exit(1) when no path
\* was given at all, else the server NewGitServer builds.
serveCmdRun(paths, fs) ==
    IF Len(paths) = 0
    THEN [phase |-> "exited", repoPaths |-> <<>>]
    ELSE [phase |-> "constructed", repoPaths |-> NewGitServer(paths, fs)]

ToolsAlwaysRegistered ==
    { "git_status", "git_diff_unstaged", "git_diff_staged", "git_diff",
      "git_commit", "git_add", "git_reset", "git_log", "git_create_branch",
      "git_checkout", "git_show", "git_init", "git_list_repositories",
      "git_apply_patch_string", "git_apply_patch_file" }

\* A registration that adds git_push whatever the flag.
RegisteredTools_PushAlways(wa) == ToolsAlwaysRegistered \cup {"git_push"}

\* The set of tools RegisterTools adds for a given write-access flag.
RegisteredTools(wa) ==
    ToolsAlwaysRegistered \cup (IF wa THEN {"git_push"} ELSE {})

(***************************************************************************)
(* Path guard                                                              *)
(***************************************************************************)

\* isPathInAllowedRepos: the absolute path has a registry entry as a string prefix.
isPathInAllowedRepos(path) ==
    LET absPath == Abs(path)
    IN \E i \in 1..Len(repoPaths) : HasPrefix(absPath, repoPaths[i])

\* A guard that returns the requested path as given instead of its absolute form.
validateRepoPath_Raw(requestedPath) ==
    IF requestedPath = <<>>
    THEN IF Len(repoPaths) > 0
         THEN [path |-> repoPaths[1], err |-> "", named |-> <<>>]
         ELSE [path |-> <<>>, err |-> "no repository specified and no defaults configured",
               named |-> <<>>]
    ELSE LET absPath == Abs(requestedPath)
         IN IF ~isPathInAllowedRepos(absPath)
            THEN [path |-> <<>>, err |-> "access denied - path outside allowed repositories",
                  named |-> absPath]
            ELSE IF DotGitNotExist(dotGit, absPath)
                 THEN [path |-> <<>>, err |-> "not a git repository", named |-> absPath]
                 ELSE [path |-> requestedPath, err |-> "", named |-> <<>>]

\* A guard whose default is the most recently registered repository.
validateRepoPath_LastDefault(requestedPath) ==
    IF requestedPath = <<>>
    THEN IF Len(repoPaths) > 0
         THEN [path |-> repoPaths[Len(repoPaths)], err |-> "", named |-> <<>>]
         ELSE [path |-> <<>>, err |-> "no repository specified and no defaults configured",
               named |-> <<>>]
    ELSE LET absPath == Abs(requestedPath)
         IN IF ~isPathInAllowedRepos(absPath)
            THEN [path |-> <<>>, err |-> "access denied - path outside allowed repositories",
                  named |-> absPath]
            ELSE IF DotGitNotExist(dotGit, absPath)
                 THEN [path |-> <<>>, err |-> "not a git repository", named |-> absPath]
                 ELSE [path |-> absPath, err |-> "", named |-> <<>>]

\* A guard that looks for the Git metadata before it checks containment.
validateRepoPath_GitCheckFirst(requestedPath) ==
    IF requestedPath = <<>>
    THEN IF Len(repoPaths) > 0
         THEN [path |-> repoPaths[1], err |-> "", named |-> <<>>]
         ELSE [path |-> <<>>, err |-> "no repository specified and no defaults configured",
               named |-> <<>>]
    ELSE LET absPath == Abs(requestedPath)
         IN IF DotGitNotExist(dotGit, absPath)
            THEN [path |-> <<>>, err |-> "not a git repository", named |-> absPath]
            ELSE IF ~isPathInAllowedRepos(absPath)
                 THEN [path |-> <<>>, err |-> "access denied - path outside allowed repositories",
                       named |-> absPath]
                 ELSE [path |-> absPath, err |-> "", named |-> <<>>]

\* validateRepoPath: err is "" on success; named is the path the error names.
validateRepoPath(requestedPath) ==
    IF requestedPath = <<>>
    THEN IF Len(repoPaths) > 0
         THEN [path |-> repoPaths[1], err |-> "", named |-> <<>>]
         ELSE [path |-> <<>>, err |-> "no repository specified and no defaults configured",
               named |-> <<>>]
    ELSE LET absPath == Abs(requestedPath)
         IN IF ~isPathInAllowedRepos(absPath)
            THEN [path |-> <<>>, err |-> "access denied - path outside allowed repositories",
                  named |-> absPath]
            ELSE IF DotGitNotExist(dotGit, absPath)
                 THEN [path |-> <<>>, err |-> "not a git repository", named |-> absPath]
                 ELSE [path |-> absPath, err |-> "", named |-> <<>>]

getRepoPathForOperation(requestedPath) == validateRepoPath(requestedPath)

(***************************************************************************)
(* Backends: each method gives the set of its possible outcomes            *)
(* (TRUE: it returned a nil error).                                        *)
(***************************************************************************)

\* Directory containment: p is root or lies below it.
IsWithin(p, root) ==
    \/ p = root
    \/ root = <<"/">>
    \/ HasPrefix(p, root \o <<"/">>)

\* RunGitCommand with cmd.Dir = repoPath: git finds a repository at the
\* directory or at one of its ancestors.
InWorkTree(repoPath) == \E q \in AbsPaths : dotGit[q] # "none" /\ IsWithin(repoPath, q)

\* git.PlainOpen(repoPath): the repository must be at repoPath itself.
PlainOpen(repoPath) == dotGit[repoPath] # "none"

\* An operation that needs a repository and always succeeds in one.
Always(usable) == IF usable THEN {TRUE} ELSE {FALSE}

\* An operation that needs a repository and may still fail on its data
\* (unknown revision, nothing to commit, missing file, existing branch, ...).
MayFail(usable) == IF usable THEN {TRUE, FALSE} ELSE {FALSE}

GetStatus(repoPath) ==
    IF gitOps = "shell" THEN Always(InWorkTree(repoPath)) ELSE Always(PlainOpen(repoPath))

GetDiffUnstaged(repoPath) == Always(InWorkTree(repoPath))

GetDiffStaged(repoPath) == Always(InWorkTree(repoPath))

GetDiff(repoPath, target) == MayFail(InWorkTree(repoPath))

CommitChanges(repoPath, message) ==
    IF gitOps = "shell" THEN MayFail(InWorkTree(repoPath)) ELSE MayFail(PlainOpen(repoPath))

AddFiles(repoPath, files) ==
    IF gitOps = "shell" THEN MayFail(InWorkTree(repoPath)) ELSE MayFail(PlainOpen(repoPath))

ResetStaged(repoPath) == Always(InWorkTree(repoPath))

GetLog(repoPath) ==
    IF gitOps = "shell" THEN MayFail(InWorkTree(repoPath)) ELSE MayFail(PlainOpen(repoPath))

CreateBranch(repoPath, branchName) ==
    IF gitOps = "shell" THEN MayFail(InWorkTree(repoPath)) ELSE MayFail(PlainOpen(repoPath))

CheckoutBranch(repoPath, branchName) ==
    IF gitOps = "shell" THEN MayFail(InWorkTree(repoPath)) ELSE MayFail(PlainOpen(repoPath))

ShowCommit(repoPath, revision) == MayFail(InWorkTree(repoPath))

PushChanges(repoPath) ==
    IF gitOps = "shell" THEN MayFail(InWorkTree(repoPath)) ELSE MayFail(PlainOpen(repoPath))

ApplyPatchFromString(repoPath, patchString) == MayFail(InWorkTree(repoPath))

ApplyPatchFromFile(repoPath, patchFile) == MayFail(InWorkTree(repoPath))

\* InitRepo: MkdirAll and git init may fail (permissions); git init succeeds
\* again on an existing repository, git.PlainInit refuses one.
InitRepo(repoPath) ==
    IF gitOps = "shell" THEN {TRUE, FALSE}
    ELSE IF dotGit[repoPath] # "none" THEN {FALSE} ELSE {TRUE, FALSE}

\* The filesystem after a successful InitRepo: a .git directory is created
\* where there was no .git entry.
AfterInitRepo(repoPath) ==
    IF dotGit[repoPath] = "none" THEN [dotGit EXCEPT ![repoPath] = "dir"] ELSE dotGit

(***************************************************************************)
(* Tool handlers: each gives the set of results the call can return.       *)
(***************************************************************************)

gitStatusHandler(args) ==
    LET requestedPath == AsString(args.repo_path).s
        v == getRepoPathForOperation(requestedPath)
    IN IF v.err # "" THEN {PathError("git_status", args, v)}
       ELSE BackendResults("git_status", args, v.path, "GetStatus", GetStatus(v.path),
                           "Failed to get status", "Repository status for")

gitDiffUnstagedHandler(args) ==
    LET requestedPath == AsString(args.repo_path).s
        v == getRepoPathForOperation(requestedPath)
    IN IF v.err # "" THEN {PathError("git_diff_unstaged", args, v)}
       ELSE BackendResults("git_diff_unstaged", args, v.path, "GetDiffUnstaged",
                           GetDiffUnstaged(v.path),
                           "Failed to get unstaged diff", "Unstaged changes for")

gitDiffStagedHandler(args) ==
    LET requestedPath == AsString(args.repo_path).s
        v == getRepoPathForOperation(requestedPath)
    IN IF v.err # "" THEN {PathError("git_diff_staged", args, v)}
       ELSE BackendResults("git_diff_staged", args, v.path, "GetDiffStaged",
                           GetDiffStaged(v.path),
                           "Failed to get staged diff", "Staged changes for")

\* A handler that checks its argument before it resolves the repository.
gitDiffHandler_ArgFirst(args) ==
    LET requestedPath == AsString(args.repo_path).s
        v == getRepoPathForOperation(requestedPath)
        target == AsString(args.arg)
    IN IF ~target.ok THEN {ErrorResult("git_diff", args, "target must be a string")}
       ELSE IF v.err # "" THEN {PathError("git_diff", args, v)}
       ELSE BackendResults("git_diff", args, v.path, "GetDiff", GetDiff(v.path, target.s),
                           "Failed to get diff", "Diff with")

gitDiffHandler(args) ==
    LET requestedPath == AsString(args.repo_path).s
        v == getRepoPathForOperation(requestedPath)
        target == AsString(args.arg)
    IN IF v.err # "" THEN {PathError("git_diff", args, v)}
       ELSE IF ~target.ok THEN {ArgError("git_diff", args, v.path, "target must be a string")}
       ELSE BackendResults("git_diff", args, v.path, "GetDiff", GetDiff(v.path, target.s),
                           "Failed to get diff", "Diff with")

\* A handler that takes a missing or non-string message as the empty string.
gitCommitHandler_NoArgCheck(args) ==
    LET requestedPath == AsString(args.repo_path).s
        v == getRepoPathForOperation(requestedPath)
        message == AsString(args.arg)
    IN IF v.err # "" THEN {PathError("git_commit", args, v)}
       ELSE BackendResults("git_commit", args, v.path, "CommitChanges",
                           CommitChanges(v.path, message.s),
                           "Failed to commit", "commit result")

gitCommitHandler(args) ==
    LET requestedPath == AsString(args.repo_path).s
        v == getRepoPathForOperation(requestedPath)
        message == AsString(args.arg)
    IN IF v.err # "" THEN {PathError("git_commit", args, v)}
       ELSE IF ~message.ok THEN {ArgError("git_commit", args, v.path, "message must be a string")}
       ELSE BackendResults("git_commit", args, v.path, "CommitChanges",
                           CommitChanges(v.path, message.s),
                           "Failed to commit", "commit result")

gitAddHandler(args) ==
    LET requestedPath == AsString(args.repo_path).s
        v == getRepoPathForOperation(requestedPath)
        filesStr == AsString(args.arg)
    IN IF v.err # "" THEN {PathError("git_add", args, v)}
       ELSE IF ~filesStr.ok THEN {ArgError("git_add", args, v.path, "files must be a string")}
       ELSE BackendResults("git_add", args, v.path, "AddFiles", AddFiles(v.path, filesStr.s),
                           "Failed to add files", "Files staged successfully")

gitResetHandler(args) ==
    LET requestedPath == AsString(args.repo_path).s
        v == getRepoPathForOperation(requestedPath)
    IN IF v.err # "" THEN {PathError("git_reset", args, v)}
       ELSE BackendResults("git_reset", args, v.path, "ResetStaged", ResetStaged(v.path),
                           "Failed to reset", "All staged changes reset")

gitLogHandler(args) ==
    LET requestedPath == AsString(args.repo_path).s
        v == getRepoPathForOperation(requestedPath)
    IN IF v.err # "" THEN {PathError("git_log", args, v)}
       ELSE BackendResults("git_log", args, v.path, "GetLog", GetLog(v.path),
                           "Failed to get log", "Commit history for")

gitCreateBranchHandler(args) ==
    LET requestedPath == AsString(args.repo_path).s
        v == getRepoPathForOperation(requestedPath)
        branchName == AsString(args.arg)
    IN IF v.err # "" THEN {PathError("git_create_branch", args, v)}
       ELSE IF ~branchName.ok
            THEN {ArgError("git_create_branch", args, v.path, "branch_name must be a string")}
       ELSE BackendResults("git_create_branch", args, v.path, "CreateBranch",
                           CreateBranch(v.path, branchName.s),
                           "Failed to create branch", "Created branch")

gitCheckoutHandler(args) ==
    LET requestedPath == AsString(args.repo_path).s
        v == getRepoPathForOperation(requestedPath)
        branchName == AsString(args.arg)
    IN IF v.err # "" THEN {PathError("git_checkout", args, v)}
       ELSE IF ~branchName.ok
            THEN {ArgError("git_checkout", args, v.path, "branch_name must be a string")}
       ELSE BackendResults("git_checkout", args, v.path, "CheckoutBranch",
                           CheckoutBranch(v.path, branchName.s),
                           "Failed to checkout branch", "Switched to branch")

gitShowHandler(args) ==
    LET requestedPath == AsString(args.repo_path).s
        v == getRepoPathForOperation(requestedPath)
        revision == AsString(args.arg)
    IN IF v.err # "" THEN {PathError("git_show", args, v)}
       ELSE IF ~revision.ok THEN {ArgError("git_show", args, v.path, "revision must be a string")}
       ELSE BackendResults("git_show", args, v.path, "ShowCommit",
                           ShowCommit(v.path, revision.s),
                           "Failed to show commit", "show result")

\* A git_init that creates the repository but does not register it.
gitInitHandler_NoAppend(args) ==
    LET requestedPath == AsString(args.repo_path).s
        absPath == Abs(requestedPath)
    IN IF requestedPath = <<>>
       THEN {[res |-> ErrorResult("git_init", args,
                                  "repo_path must be specified for initialization"),
              repos |-> repoPaths, fs |-> dotGit]}
       ELSE { [res |-> r,
               repos |-> repoPaths,
               fs |-> IF r.backend.ok THEN AfterInitRepo(absPath) ELSE dotGit]
              : r \in BackendResults("git_init", args, absPath, "InitRepo", InitRepo(absPath),
                                     "Failed to initialize repository",
                                     "Initialized empty Git repository in") }

\* A git_init that puts the new repository in front of the registry.
gitInitHandler_Prepend(args) ==
    LET requestedPath == AsString(args.repo_path).s
        absPath == Abs(requestedPath)
    IN IF requestedPath = <<>>
       THEN {[res |-> ErrorResult("git_init", args,
                                  "repo_path must be specified for initialization"),
              repos |-> repoPaths, fs |-> dotGit]}
       ELSE { [res |-> r,
               repos |-> IF r.backend.ok THEN <<absPath>> \o repoPaths ELSE repoPaths,
               fs |-> IF r.backend.ok THEN AfterInitRepo(absPath) ELSE dotGit]
              : r \in BackendResults("git_init", args, absPath, "InitRepo", InitRepo(absPath),
                                     "Failed to initialize repository",
                                     "Initialized empty Git repository in") }

\* A git_init that makes the new repository the default: it swaps it with
\* the first entry of the registry.
gitInitHandler_NewDefault(args) ==
    LET requestedPath == AsString(args.repo_path).s
        absPath == Abs(requestedPath)
    IN IF requestedPath = <<>>
       THEN {[res |-> ErrorResult("git_init", args,
                                  "repo_path must be specified for initialization"),
              repos |-> repoPaths, fs |-> dotGit]}
       ELSE { [res |-> r,
               repos |-> IF r.backend.ok
                         THEN IF repoPaths = <<>> THEN <<absPath>>
                              ELSE <<absPath>> \o Tail(repoPaths) \o <<repoPaths[1]>>
                         ELSE repoPaths,
               fs |-> IF r.backend.ok THEN AfterInitRepo(absPath) ELSE dotGit]
              : r \in BackendResults("git_init", args, absPath, "InitRepo", InitRepo(absPath),
                                     "Failed to initialize repository",
                                     "Initialized empty Git repository in") }

\* A git_init that registers the path whether or not InitRepo succeeded.
gitInitHandler_AppendOnFailure(args) ==
    LET requestedPath == AsString(args.repo_path).s
        absPath == Abs(requestedPath)
    IN IF requestedPath = <<>>
       THEN {[res |-> ErrorResult("git_init", args,
                                  "repo_path must be specified for initialization"),
              repos |-> repoPaths, fs |-> dotGit]}
       ELSE { [res |-> r,
               repos |-> Append(repoPaths, absPath),
               fs |-> IF r.backend.ok THEN AfterInitRepo(absPath) ELSE dotGit]
              : r \in BackendResults("git_init", args, absPath, "InitRepo", InitRepo(absPath),
                                     "Failed to initialize repository",
                                     "Initialized empty Git repository in") }

\* gitInitHandler also changes the registry and the filesystem: each element
\* is a result with the registry and the filesystem after the call.
gitInitHandler(args) ==
    LET requestedPath == AsString(args.repo_path).s
        absPath == Abs(requestedPath)
    IN IF requestedPath = <<>>
       THEN {[res |-> ErrorResult("git_init", args,
                                  "repo_path must be specified for initialization"),
              repos |-> repoPaths, fs |-> dotGit]}
       ELSE { [res |-> r,
               repos |-> IF r.backend.ok THEN Append(repoPaths, absPath) ELSE repoPaths,
               fs |-> IF r.backend.ok THEN AfterInitRepo(absPath) ELSE dotGit]
              : r \in BackendResults("git_init", args, absPath, "InitRepo", InitRepo(absPath),
                                     "Failed to initialize repository",
                                     "Initialized empty Git repository in") }

\* A git_push that resolves the repository before it looks at the flag.
gitPushHandler_CheckAfterResolve(args) ==
    LET requestedPath == AsString(args.repo_path).s
        v == getRepoPathForOperation(requestedPath)
    IN IF v.err # "" THEN {PathError("git_push", args, v)}
       ELSE IF ~writeAccess
       THEN {ErrorResult("git_push", args, "Write access is disabled")}
       ELSE BackendResults("git_push", args, v.path, "PushChanges", PushChanges(v.path),
                           "Failed to push changes", "push result")

gitPushHandler(args) ==
    LET requestedPath == AsString(args.repo_path).s
        v == getRepoPathForOperation(requestedPath)
    IN IF ~writeAccess
       THEN {ErrorResult("git_push", args, "Write access is disabled")}
       ELSE IF v.err # "" THEN {PathError("git_push", args, v)}
       ELSE BackendResults("git_push", args, v.path, "PushChanges", PushChanges(v.path),
                           "Failed to push changes", "push result")

gitApplyPatchStringHandler(args) ==
    LET requestedPath == AsString(args.repo_path).s
        v == getRepoPathForOperation(requestedPath)
        patchString == AsString(args.arg)
    IN IF v.err # "" THEN {PathError("git_apply_patch_string", args, v)}
       ELSE IF ~patchString.ok
            THEN {ArgError("git_apply_patch_string", args, v.path, "patch_string must be a string")}
       ELSE IF IsBlank(patchString.s)
            THEN {ArgError("git_apply_patch_string", args, v.path, "patch_string cannot be empty")}
       ELSE BackendResults("git_apply_patch_string", args, v.path, "ApplyPatchFromString",
                           ApplyPatchFromString(v.path, patchString.s),
                           "Failed to apply patch", "patch result")

\* Whether the patch file exists is not part of the modelled filesystem: the
\* os.Stat check may fail or pass.
gitApplyPatchFileHandler(args) ==
    LET requestedPath == AsString(args.repo_path).s
        v == getRepoPathForOperation(requestedPath)
        patchFile == AsString(args.arg)
    IN IF v.err # "" THEN {PathError("git_apply_patch_file", args, v)}
       ELSE IF ~patchFile.ok
            THEN {ArgError("git_apply_patch_file", args, v.path, "patch_file must be a string")}
       ELSE IF IsBlank(patchFile.s)
            THEN {ArgError("git_apply_patch_file", args, v.path, "patch_file cannot be empty")}
       ELSE {ArgError("git_apply_patch_file", args, v.path, "Patch file does not exist")}
            \cup BackendResults("git_apply_patch_file", args, v.path, "ApplyPatchFromFile",
                                ApplyPatchFromFile(v.path, patchFile.s),
                                "Failed to apply patch", "patch result")

\* A listing that leaves out the entries whose .git is gone, as the path guard
\* would.
gitListRepositoriesHandler_Guarded(args) ==
    LET kept == SelectSeq(repoPaths, LAMBDA p : ~DotGitNotExist(dotGit, p))
    IN IF Len(kept) = 0
       THEN {[Res("git_list_repositories", args) EXCEPT !.msg = "No repositories configured"]}
       ELSE {[Res("git_list_repositories", args) EXCEPT
                 !.msg = "Available repositories",
                 !.count = Len(kept),
                 !.listing = [i \in 1..Len(kept) |->
                                 [n |-> i, name |-> Base(kept[i]), path |-> kept[i]]]]}

gitListRepositoriesHandler(args) ==
    IF Len(repoPaths) = 0
    THEN {[Res("git_list_repositories", args) EXCEPT !.msg = "No repositories configured"]}
    ELSE {[Res("git_list_repositories", args) EXCEPT
              !.msg = "Available repositories",
              !.count = Len(repoPaths),
              !.listing = [i \in 1..Len(repoPaths) |->
                              [n |-> i, name |-> Base(repoPaths[i]), path |-> repoPaths[i]]]]}

\* The tools whose handler resolves the repository through the path guard.
GuardedTools ==
    { "git_status", "git_diff_unstaged", "git_diff_staged", "git_diff",
      "git_commit", "git_add", "git_reset", "git_log", "git_create_branch",
      "git_checkout", "git_show", "git_push",
      "git_apply_patch_string", "git_apply_patch_file" }

\* The tools whose handler reads a tool-specific required argument.
ToolsWithArg ==
    { "git_diff", "git_commit", "git_add", "git_create_branch", "git_checkout",
      "git_show", "git_apply_patch_string", "git_apply_patch_file" }

\* The handler the server runs for a tool name (the pairs given to AddTool).
CallTool(name, args) ==
    CASE name = "git_status" -> gitStatusHandler(args)
      [] name = "git_diff_unstaged" -> gitDiffUnstagedHandler(args)
      [] name = "git_diff_staged" -> gitDiffStagedHandler(args)
      [] name = "git_diff" -> gitDiffHandler(args)
      [] name = "git_commit" -> gitCommitHandler(args)
      [] name = "git_add" -> gitAddHandler(args)
      [] name = "git_reset" -> gitResetHandler(args)
      [] name = "git_log" -> gitLogHandler(args)
      [] name = "git_create_branch" -> gitCreateBranchHandler(args)
      [] name = "git_checkout" -> gitCheckoutHandler(args)
      [] name = "git_show" -> gitShowHandler(args)
      [] name = "git_init" -> { x.res : x \in gitInitHandler(args) }
      [] name = "git_push" -> gitPushHandler(args)
      [] name = "git_apply_patch_string" -> gitApplyPatchStringHandler(args)
      [] name = "git_apply_patch_file" -> gitApplyPatchFileHandler(args)
      [] name = "git_list_repositories" -> gitListRepositoriesHandler(args)

(***************************************************************************)
(* Specification                                                           *)
(***************************************************************************)

\* Number of goroutines serving calls at the same time.
NumWorkers == 2

Procs == 1..NumWorkers

\* The branch names of the repository content.
BranchNames == {"main", "dev"}

NoReq == [tool |-> "", path |-> <<>>]
NoLoc == [slice |-> <<>>, err |-> ""]

\* No goroutine is serving a call.
NoWorkers ==
    /\ pc = [p \in Procs |-> "idle"]
    /\ req = [p \in Procs |-> NoReq]
    /\ loc = [p \in Procs |-> NoLoc]

NoRefs == [b \in BranchNames |-> 0]
NoPre == [heads |-> NoRefs, head |-> "main", origin |-> NoRefs, staged |-> {}]
\* The result of an operation on the repository content: the backend method,
\* its arguments (remote and branch of a push, branch and base of a branch
\* creation, branch of a checkout; "" when omitted; the files of an add, in
\* the order given), whether the tool result
\* is an error result, the leading text of the result with the remote and the
\* branch written into it, and, for a checkout, whether it came right after a
\* successful creation of the same branch.
NoOut == [op |-> "", remote |-> "", branch |-> "", base |-> "", isError |-> FALSE,
          text |-> "", textRemote |-> "", textBranch |-> "", followsCreate |-> FALSE,
          files |-> <<>>]

\* No repository content is looked at.
NoContent ==
    /\ heads = NoRefs
    /\ head = "main"
    /\ origin = NoRefs
    /\ parent = <<>>
    /\ out = NoOut
    /\ pre = NoPre
    /\ staged = {}

\* The assistants the setup command knows.
Assistants == {"cline", "roo-code"}

\* No settings file has a "git" entry.
NoSettings == [a \in Assistants |-> [exists |-> FALSE, autoApprove |-> {}]]

\* The setup command is not run.
NoSetup ==
    /\ setupTools = <<>>
    /\ autoApprove = ""
    /\ toolIdx = 1
    /\ hasErrors = FALSE
    /\ processed = <<>>
    /\ settings = NoSettings
    /\ exitCode = "running"

\* The serve command is started with a list of configured paths, a backend
\* mode and the write-access flag, on some filesystem.
Init ==
    /\ NoWorkers
    /\ NoContent
    /\ NoSetup
    /\ dotGit \in [AbsPaths -> {"none", "dir", "file"}]
    /\ allRepoPaths \in SeqUpTo(PathInputs, MaxRepos)
    /\ phase = "start"
    /\ repoPaths = <<>>
    /\ writeAccess \in BOOLEAN
    /\ gitOps \in {"shell", "go-git"}
    /\ tools = {}
    /\ last = NoCall
    /\ justInit = <<>>

\* serveCmd.Run: the server is constructed from the configured paths, or the
\* process exits.
Construct ==
    /\ phase = "start"
    /\ LET r == serveCmdRun(allRepoPaths, dotGit)
       IN /\ phase' = r.phase
          /\ repoPaths' = r.repoPaths
    /\ UNCHANGED <<writeAccess, gitOps, tools, dotGit, last, justInit, allRepoPaths>>
    /\ UNCHANGED <<concVars, contentVars, setupVars>>

\* gitServer.RegisterTools() followed by gitServer.Serve(): from here on the
\* server answers calls.
RegisterTools ==
    /\ phase = "constructed"
    /\ tools = {}
    /\ tools' = RegisteredTools(writeAccess)
    /\ phase' = "serving"
    /\ allRepoPaths' = <<>>
    /\ UNCHANGED <<repoPaths, writeAccess, gitOps, dotGit, last, justInit>>
    /\ UNCHANGED <<concVars, contentVars, setupVars>>

\* The path lies in the directory tree of a registered repository root.
UnderRegistered(p) == \E i \in 1..Len(repoPaths) : IsWithin(p, repoPaths[i])

\* The server takes a call when it has registered its tools and is not
\* answering another call.
Idle == tools # {} /\ last = NoCall

\* A call served by a handler that leaves the server and the filesystem as they are.
Serve(name, argChoices) ==
    /\ Idle
    /\ \E a \in RepoPathArgs, b \in argChoices :
          \E r \in CallTool(name, [repo_path |-> a, arg |-> b]) : last' = r
    /\ UNCHANGED <<repoPaths, writeAccess, gitOps, tools, dotGit, justInit,
                   allRepoPaths, phase>>
    /\ UNCHANGED <<concVars, contentVars, setupVars>>

CallGitStatus == Serve("git_status", {Absent})
CallGitDiffUnstaged == Serve("git_diff_unstaged", {Absent})
CallGitDiffStaged == Serve("git_diff_staged", {Absent})
CallGitDiff == Serve("git_diff", ToolArgs)
CallGitCommit == Serve("git_commit", ToolArgs)
CallGitAdd == Serve("git_add", ToolArgs)
CallGitReset == Serve("git_reset", {Absent})
CallGitLog == Serve("git_log", {Absent})
CallGitCreateBranch == Serve("git_create_branch", ToolArgs)
CallGitCheckout == Serve("git_checkout", ToolArgs)
CallGitShow == Serve("git_show", ToolArgs)
CallGitPush == Serve("git_push", {Absent})
CallGitApplyPatchString == Serve("git_apply_patch_string", ToolArgs)
CallGitApplyPatchFile == Serve("git_apply_patch_file", ToolArgs)
CallGitListRepositories == Serve("git_list_repositories", {Absent})

CallGitInit ==
    /\ Idle
    /\ Len(repoPaths) < MaxRepos
    /\ \E a \in RepoPathArgs :
          \E x \in gitInitHandler([repo_path |-> a, arg |-> Absent]) :
             /\ last' = x.res
             /\ repoPaths' = x.repos
             /\ dotGit' = x.fs
             /\ justInit' = IF ~x.res.isError /\ ~UnderRegistered(x.res.path)
                            THEN x.res.path
                            ELSE <<>>
    /\ UNCHANGED <<writeAccess, gitOps, tools, allRepoPaths, phase>>
    /\ UNCHANGED <<concVars, contentVars, setupVars>>

\* The result is returned to the caller and the request is discarded.  The
\* path of a git_init stays remembered for the one call that follows it.
Respond ==
    /\ last # NoCall
    /\ last' = NoCall
    /\ justInit' = IF last.tool = "git_init" THEN justInit ELSE <<>>
    /\ UNCHANGED <<repoPaths, writeAccess, gitOps, tools, dotGit, allRepoPaths, phase>>
    /\ UNCHANGED <<concVars, contentVars, setupVars>>

\* Between calls the environment removes the .git entry of a directory
\* (the case validateRepoPath re-checks on every call).
EnvRemoveGitDir ==
    /\ Idle
    /\ \E p \in AbsPaths :
          /\ dotGit[p] # "none"
          /\ dotGit' = [dotGit EXCEPT ![p] = "none"]
    /\ justInit' = <<>>
    /\ UNCHANGED <<repoPaths, writeAccess, gitOps, tools, last, allRepoPaths, phase>>
    /\ UNCHANGED <<concVars, contentVars, setupVars>>

Next ==
    \/ Construct
    \/ RegisterTools
    \/ CallGitStatus
    \/ CallGitDiffUnstaged
    \/ CallGitDiffStaged
    \/ CallGitDiff
    \/ CallGitCommit
    \/ CallGitAdd
    \/ CallGitReset
    \/ CallGitLog
    \/ CallGitCreateBranch
    \/ CallGitCheckout
    \/ CallGitShow
    \/ CallGitInit
    \/ CallGitPush
    \/ CallGitApplyPatchString
    \/ CallGitApplyPatchFile
    \/ CallGitListRepositories
    \/ Respond
    \/ EnvRemoveGitDir

Spec == Init /\ [][Next]_vars

(***************************************************************************)
(* Properties                                                              *)
(***************************************************************************)

\* The repo_path string the handler of the call in last worked with.
LastRequested == AsString(last.args.repo_path).s

\* The call in last went through the path guard.
GuardReached ==
    /\ last.tool \in GuardedTools
    /\ ~(last.tool = "git_push" /\ ~writeAccess)

\* C1: a guarded call whose non-empty repo_path resolves to a path under no
\* registered root is answered with the access-denied error naming that path,
\* and no backend operation is invoked.
C1_OutsideIsDenied ==
    (GuardReached /\ LastRequested # <<>> /\ ~UnderRegistered(Abs(LastRequested)))
    => /\ last.pathErr = "access denied - path outside allowed repositories"
       /\ last.path = Abs(LastRequested)
       /\ last.backend.op = ""

\* C2 as stated: every path under a registered root resolves successfully to
\* its absolute form.
C2_UnderRootResolves ==
    (GuardReached /\ LastRequested # <<>> /\ UnderRegistered(Abs(LastRequested)))
    => /\ last.pathErr = ""
       /\ last.path = Abs(LastRequested)

\* C2 amended: every path under a registered root that has a .git entry at
\* the time of the call resolves successfully to its absolute form.
C2_UnderRootWithGitResolves ==
    (/\ GuardReached
     /\ LastRequested # <<>>
     /\ UnderRegistered(Abs(LastRequested))
     /\ dotGit[Abs(LastRequested)] # "none")
    => /\ last.pathErr = ""
       /\ last.path = Abs(LastRequested)

\* A relative path was resolved to a proper subdirectory of a registered root.
C2_Witness ==
    /\ GuardReached
    /\ LastRequested = <<"b">>
    /\ \E i \in 1..Len(repoPaths) :
          repoPaths[i] # Abs(LastRequested) /\ IsWithin(Abs(LastRequested), repoPaths[i])
    /\ last.pathErr = ""
    /\ last.path = <<"/", "a", "/", "b">>
    /\ last.backend.op # ""

\* C3: with write access disabled, git_push returns the write-access error
\* without resolving the repository and without invoking PushChanges.
C3_PushDisabled ==
    (last.tool = "git_push" /\ ~writeAccess)
    => /\ last.isError
       /\ last.msg = "Write access is disabled"
       /\ last.pathErr = ""
       /\ last.backend.op = ""

\* git_push was called with write access disabled and a path the guard rejects.
C3_Witness ==
    /\ last.tool = "git_push"
    /\ ~writeAccess
    /\ LastRequested # <<>>
    /\ validateRepoPath(LastRequested).err # ""
    /\ last.msg = "Write access is disabled"

\* C4: once the tools are registered, git_push is among them exactly when
\* write access is enabled, and every other tool is registered in both cases.
C4_PushRegisteredIffWriteAccess ==
    tools # {}
    => /\ ("git_push" \in tools) <=> writeAccess
       /\ (GuardedTools \ {"git_push"}) \cup {"git_init", "git_list_repositories"}
             \subseteq tools

\* The tools were registered with write access disabled.
C4_Witness ==
    /\ tools # {}
    /\ ~writeAccess
    /\ "git_push" \notin tools
    /\ "git_status" \in tools

\* C5: the guard resolves an empty path to the first registry entry when the
\* registry is non-empty, and fails with the no-default error when it is empty.
C5_EmptyPathDefault ==
    (GuardReached /\ LastRequested = <<>>)
    => IF Len(repoPaths) > 0
       THEN last.pathErr = "" /\ last.path = repoPaths[1]
       ELSE /\ last.pathErr = "no repository specified and no defaults configured"
            /\ last.backend.op = ""

\* A call without repo_path was resolved with two different repositories registered.
C5_Witness ==
    /\ GuardReached
    /\ LastRequested = <<>>
    /\ Len(repoPaths) >= 2
    /\ repoPaths[1] # repoPaths[2]
    /\ last.path = repoPaths[1]
    /\ last.backend.op # ""

\* What a caller can observe of a result, and the backend operation behind it.
Outcome(r) ==
    [isError |-> r.isError, msg |-> r.msg, pathErr |-> r.pathErr, path |-> r.path,
     backend |-> r.backend, handlerErr |-> r.handlerErr]

Outcomes(name, args) == { Outcome(r) : r \in CallTool(name, args) }

\* C6: with a non-empty registry, a guarded call that omits repo_path has the
\* same possible outcomes as the same call naming the first registered path.
C6_OmittedSameAsFirst ==
    (last.tool \in GuardedTools /\ last.args.repo_path = Absent /\ Len(repoPaths) > 0)
    => Outcomes(last.tool, last.args)
          = Outcomes(last.tool, [last.args EXCEPT !.repo_path = Str(repoPaths[1])])

FailTexts ==
    { "Failed to get status", "Failed to get unstaged diff", "Failed to get staged diff",
      "Failed to get diff", "Failed to commit", "Failed to add files", "Failed to reset",
      "Failed to get log", "Failed to create branch", "Failed to checkout branch",
      "Failed to show commit", "Failed to initialize repository",
      "Failed to push changes", "Failed to apply patch" }

\* C7: every handler returns a nil error; a path-resolution failure, a missing
\* or non-string argument, disabled write access and a backend failure are
\* each reported as an error result with its message.
C7_ErrorsAreResults ==
    last # NoCall
    => /\ last.handlerErr = "nil"
       /\ last.pathErr # "" => (last.isError /\ last.msg = "Repository path error")
       /\ (last.tool \in ToolsWithArg /\ ~AsString(last.args.arg).ok) => last.isError
       /\ (last.tool = "git_push" /\ ~writeAccess) => last.isError
       /\ (last.backend.op # "" /\ ~last.backend.ok)
             => (last.isError /\ last.msg \in FailTexts)

\* git_diff reached the backend, which failed, and the failure is an error result.
C7_Witness ==
    /\ last.tool = "git_diff"
    /\ last.backend.op = "GetDiff"
    /\ ~last.backend.ok
    /\ last.handlerErr = "nil"
    /\ last.isError
    /\ last.msg = "Failed to get diff"

\* The call in last was preceded by a successful git_init at a path outside
\* every repository registered before it.
InitWasFresh == justInit # <<>>

\* C8: right after a successful git_init at a fresh path P, git_status with
\* repo_path = P succeeds and git_list_repositories lists P.
C8_InitThenStatusAndList ==
    /\ (/\ InitWasFresh
        /\ last.tool = "git_status"
        /\ LastRequested # <<>>
        /\ Abs(LastRequested) = justInit)
       => (~last.isError /\ last.backend.op = "GetStatus" /\ last.backend.path = justInit)
    /\ (InitWasFresh /\ last.tool = "git_list_repositories")
       => \E i \in 1..Len(last.listing) : last.listing[i].path = justInit

\* git_status succeeded on the path of the git_init that preceded it.
C8_Witness ==
    /\ InitWasFresh
    /\ last.tool = "git_status"
    /\ LastRequested # <<>>
    /\ Abs(LastRequested) = justInit
    /\ ~last.isError

IsPrefixOf(s, t) == Len(s) <= Len(t) /\ SubSeq(t, 1, Len(s)) = s

\* C9: every step leaves the registry a prefix of the registry after it.
C9_AppendOnly == [][IsPrefixOf(repoPaths, repoPaths')]_vars

\* A git_init has appended to a registry that already had an entry.
C9_Witness ==
    /\ last.tool = "git_init"
    /\ ~last.isError
    /\ Len(repoPaths) >= 2
    /\ repoPaths[Len(repoPaths)] = last.path

\* C10: the registry changes only by a successful git_init at a path it does
\* not contain; a successful git_init at a registered path leaves it unchanged.
C10_InitAddsOnlyNewPaths ==
    [][/\ (repoPaths' # repoPaths)
          => (/\ last'.tool = "git_init"
              /\ ~last'.isError
              /\ last'.path \notin Range(repoPaths))
       /\ (last'.tool = "git_init" /\ ~last'.isError /\ last'.path \in Range(repoPaths))
          => repoPaths' = repoPaths]_vars

(***************************************************************************)
(* Start-up                                                                *)
(***************************************************************************)

\* The non-empty paths of a list whose directory has a .git directory, each
\* in absolute form, in list order.
RECURSIVE Survivors(_, _)
Survivors(paths, fs) ==
    IF paths = <<>> THEN <<>>
    ELSE LET p == Head(paths)
             rest == Survivors(Tail(paths), fs)
         IN IF p # <<>> /\ fs[Abs(p)] = "dir" THEN <<Abs(p)>> \o rest ELSE rest

\* A sequence without its repeated elements, first occurrences kept in order.
RECURSIVE Dedup(_)
Dedup(s) ==
    IF s = <<>> THEN <<>>
    ELSE LET front == Dedup(SubSeq(s, 1, Len(s) - 1))
             x == s[Len(s)]
         IN IF x \in Range(front) THEN front ELSE Append(front, x)

\* C11: the registry NewGitServer builds is exactly the configured paths that
\* have a .git directory, in absolute form, without repetitions and in input
\* order (so its first entry, the default, is the first surviving path).
C11_NormalizedDeduplicated ==
    phase = "constructed" => repoPaths = Dedup(Survivors(allRepoPaths, dotGit))

\* No configured path is a repository.
NoneValid(paths, fs) ==
    \A i \in 1..Len(paths) : paths[i] = <<>> \/ fs[Abs(paths[i])] # "dir"

\* C12: bad configured paths never end start-up: the process exits only when
\* no path was given at all; the constructed registry holds only configured
\* paths that are repositories and is empty when none is; and on a server
\* serving with an empty registry a guarded call without repo_path gets the
\* no-default error and reaches no backend.
C12_BadPathsNeverAbort ==
    /\ phase = "exited" => allRepoPaths = <<>>
    /\ phase = "constructed" =>
          /\ Range(repoPaths) = Range(Survivors(allRepoPaths, dotGit))
          /\ NoneValid(allRepoPaths, dotGit) => repoPaths = <<>>
    /\ (phase = "serving" /\ repoPaths = <<>> /\ GuardReached
          /\ last.args.repo_path = Absent)
       => /\ last.isError
          /\ last.pathErr = "no repository specified and no defaults configured"
          /\ last.backend.op = ""

\* A server that started although every configured path was bad answers a
\* call without repo_path.
C12_Witness ==
    /\ phase = "serving"
    /\ repoPaths = <<>>
    /\ \A p \in AbsPaths : dotGit[p] # "dir"
    /\ last.tool = "git_status"
    /\ last.args.repo_path = Absent
    /\ last.pathErr = "no repository specified and no defaults configured"

(***************************************************************************)
(* git_list_repositories                                                   *)
(***************************************************************************)

\* name is the last path component of path: it has no separator and path
\* ends with "/" followed by name.
IsBaseName(name, path) ==
    /\ name # <<>>
    /\ \A i \in 1..Len(name) : name[i] # "/"
    /\ Len(path) > Len(name)
    /\ SubSeq(path, Len(path) - Len(name), Len(path)) = <<"/">> \o name

\* C14: git_list_repositories answers from the registry as it stands, without
\* the path guard: with an empty registry "No repositories configured", else
\* a header with the number of entries and one line per entry in registry
\* order, numbered from 1, with the directory's base name and the full path.
C14_ListReportsRegistry ==
    last.tool = "git_list_repositories" =>
       /\ ~last.isError
       /\ last.pathErr = ""
       /\ last.backend.op = ""
       /\ IF repoPaths = <<>>
          THEN last.msg = "No repositories configured" /\ last.listing = <<>>
          ELSE /\ last.msg = "Available repositories"
               /\ last.count = Len(repoPaths)
               /\ Len(last.listing) = Len(repoPaths)
               /\ \A i \in 1..Len(repoPaths) :
                     /\ last.listing[i].n = i
                     /\ last.listing[i].path = repoPaths[i]
                     /\ IsBaseName(last.listing[i].name, repoPaths[i])

\* The listing of a registry of two entries, one of which has lost its .git:
\* a path the guard would reject is still listed.
C14_Witness ==
    /\ last.tool = "git_list_repositories"
    /\ Len(repoPaths) = 2
    /\ last.count = 2
    /\ \E i \in 1..2 : dotGit[repoPaths[i]] = "none"
    /\ last.listing[2].path = repoPaths[2]

(***************************************************************************)
(* Argument validation                                                     *)
(***************************************************************************)

\* The call in last is to a tool with a required argument of its own, and
\* that argument is absent or not a string.
ArgMissing == last.tool \in ToolsWithArg /\ last.args.arg.kind # "str"

\* The error text that names the required argument of a tool.
RequiredArgText(tool) ==
    CASE tool = "git_diff" -> "target must be a string"
      [] tool = "git_commit" -> "message must be a string"
      [] tool = "git_add" -> "files must be a string"
      [] tool \in {"git_create_branch", "git_checkout"} -> "branch_name must be a string"
      [] tool = "git_show" -> "revision must be a string"
      [] tool = "git_apply_patch_string" -> "patch_string must be a string"
      [] tool = "git_apply_patch_file" -> "patch_file must be a string"
      [] OTHER -> ""

\* The path guard rejects the repo_path of the call in last.
GuardRejects == validateRepoPath(LastRequested).err # ""

\* C15 as stated: arguments are validated before the repository is resolved,
\* so a call with a missing or non-string required argument and a repo_path
\* the guard rejects is answered with the argument error.
C15_ArgumentErrorFirst ==
    (ArgMissing /\ GuardRejects) => last.msg = RequiredArgText(last.tool)

\* C15: the repository is resolved before the tool's own argument is looked
\* at, so a call with a missing or non-string required argument and a
\* repo_path the guard rejects is answered with the repository path error.
C15_PathErrorFirst ==
    (ArgMissing /\ GuardRejects)
    => /\ last.isError
       /\ last.msg = "Repository path error"
       /\ last.pathErr = validateRepoPath(LastRequested).err
       /\ last.backend.op = ""

\* A git_diff without target on a path outside the registry.
C15_Witness ==
    /\ last.tool = "git_diff"
    /\ last.args.arg = Absent
    /\ LastRequested # <<>>
    /\ last.pathErr = "access denied - path outside allowed repositories"

\* C16 as stated: a missing or non-string required argument always gives the
\* error result naming the argument, and no backend call.
C16_ArgErrorNamesArgument ==
    ArgMissing
    => /\ last.isError
       /\ last.msg = RequiredArgText(last.tool)
       /\ last.backend.op = ""

\* C16: a missing or non-string required argument always gives an error
\* result and no backend call; the error names the argument whenever the
\* repository resolves, and is the repository path error otherwise.
C16_ArgErrorAfterResolution ==
    ArgMissing
    => /\ last.isError
       /\ last.handlerErr = "nil"
       /\ last.backend.op = ""
       /\ IF GuardRejects
          THEN last.msg = "Repository path error"
          ELSE last.msg = RequiredArgText(last.tool)

\* A git_commit whose message is not a string, on a repository that resolves.
C16_Witness ==
    /\ last.tool = "git_commit"
    /\ last.args.arg = NotString
    /\ ~GuardRejects
    /\ last.path = validateRepoPath(LastRequested).path
    /\ last.msg = "message must be a string"

(***************************************************************************)
(* Result texts                                                            *)
(***************************************************************************)

\* C17: the text of every successful result of a tool that operates on a
\* repository carries the resolved path of the repository it ran against.
C17_SuccessNamesRepository ==
    (last.tool \in GuardedTools /\ ~last.isError /\ last.backend.op # "")
    => /\ last.path # <<>>
       /\ last.textPath = last.path

(***************************************************************************)
(* Handlers running concurrently                                           *)
(*                                                                         *)
(* The handlers are methods of one GitServer and share s.repoPaths; the    *)
(* struct has no lock.  Each goroutine runs one handler; an access to the  *)
(* registry takes a step to begin (the slice value is read) and a step to  *)
(* end (the loop over it is done, or the appended slice is stored).        *)
(***************************************************************************)

\* The server is serving, built from some configured paths; no call is running.
InitConc ==
    /\ dotGit \in [AbsPaths -> {"none", "dir"}]
    /\ \E paths \in SeqUpTo(PathInputs, MaxRepos) :
          /\ serveCmdRun(paths, dotGit).phase = "constructed"
          /\ repoPaths = serveCmdRun(paths, dotGit).repoPaths
    /\ writeAccess = FALSE
    /\ gitOps \in {"shell", "go-git"}
    /\ tools = RegisteredTools(writeAccess)
    /\ last = NoCall
    /\ justInit = <<>>
    /\ allRepoPaths = <<>>
    /\ phase = "serving"
    /\ NoWorkers
    /\ NoContent
    /\ NoSetup

\* The repo_path strings of the concurrent calls: none, a root, and a sibling
\* whose name extends the root's name.
ConcPaths == { <<>>, <<"/", "a">>, <<"/", "a", "b">> }

\* What the concurrent steps leave alone.
ConcFrame == UNCHANGED <<writeAccess, gitOps, tools, last, justInit, allRepoPaths, phase,
                         contentVars, setupVars>>

\* The number of git_init calls that have not been answered yet.
PendingInits == Cardinality({ q \in Procs : req[q].tool = "git_init" })

\* The transport hands a call to a goroutine.
Deliver ==
    \E p \in Procs :
       /\ pc[p] = "idle"
       /\ \E tool \in {"git_status", "git_list_repositories", "git_init"}, path \in ConcPaths :
             /\ tool = "git_list_repositories" => path = <<>>
             /\ tool = "git_init" =>
                   /\ path # <<>>
                   /\ Len(repoPaths) + PendingInits < MaxRepos
             /\ req' = [req EXCEPT ![p] = [tool |-> tool, path |-> path]]
       /\ pc' = [pc EXCEPT ![p] = "called"]
       /\ UNCHANGED <<repoPaths, dotGit, loc>>
       /\ ConcFrame

\* What the path guard answers to the call of goroutine p: the error of
\* getRepoPathForOperation for git_status, nothing for the listing, which
\* does not go through the guard.
GuardErr(p) ==
    IF req[p].tool = "git_status" THEN getRepoPathForOperation(req[p].path).err ELSE ""

\* A reader that takes a lock of the gateway which a call holds while its
\* backend operation runs.
ReadBeginWith_Locked(p, err) ==
    /\ pc[p] = "called"
    /\ \A q \in Procs \ {p} : pc[q] \notin {"backend", "hung"}
    /\ req[p].tool \in {"git_status", "git_list_repositories"}
    /\ loc' = [loc EXCEPT ![p] = [slice |-> <<>>, err |-> err]]
    /\ pc' = [pc EXCEPT ![p] = "reading"]
    /\ UNCHANGED <<repoPaths, dotGit, req>>
    /\ ConcFrame

\* validateRepoPath or gitListRepositoriesHandler reads s.repoPaths and starts
\* going through it; err is what the guard will answer.
ReadBeginWith(p, err) ==
    /\ pc[p] = "called"
    /\ req[p].tool \in {"git_status", "git_list_repositories"}
    /\ loc' = [loc EXCEPT ![p] = [slice |-> <<>>, err |-> err]]
    /\ pc' = [pc EXCEPT ![p] = "reading"]
    /\ UNCHANGED <<repoPaths, dotGit, req>>
    /\ ConcFrame

ReadBeginAt(p) == ReadBeginWith(p, GuardErr(p))

ReadBegin == \E p \in Procs : ReadBeginAt(p)

\* The reader is done with the registry: git_status goes on to the backend
\* when the guard accepted, else the call is answered.
ReadEndAt(p) ==
    /\ pc[p] = "reading"
    /\ pc' = [pc EXCEPT ![p] = IF req[p].tool = "git_status" /\ loc[p].err = ""
                               THEN "backend" ELSE "reply"]
    /\ UNCHANGED <<repoPaths, dotGit, req, loc>>
    /\ ConcFrame

ReadEnd == \E p \in Procs : ReadEndAt(p)

\* s.gitOps.GetStatus(repoPath) returns.
StatusBackendAt(p) ==
    /\ pc[p] = "backend"
    /\ pc' = [pc EXCEPT ![p] = "reply"]
    /\ UNCHANGED <<repoPaths, dotGit, req, loc>>
    /\ ConcFrame

StatusBackend == \E p \in Procs : StatusBackendAt(p)

\* gitInitHandler up to s.gitOps.InitRepo(absPath), which returns: no access
\* to the registry.
InitBackendAt(p) ==
    /\ pc[p] = "called"
    /\ req[p].tool = "git_init"
    /\ \E ok \in InitRepo(Abs(req[p].path)) :
          /\ dotGit' = IF ok THEN AfterInitRepo(Abs(req[p].path)) ELSE dotGit
          /\ pc' = [pc EXCEPT ![p] = IF ok THEN "append" ELSE "reply"]
          /\ loc' = [loc EXCEPT ![p] =
                        [slice |-> <<>>,
                         err |-> IF ok THEN "" ELSE "Failed to initialize repository"]]
    /\ UNCHANGED <<repoPaths, req>>
    /\ ConcFrame

InitBackend == \E p \in Procs : InitBackendAt(p)

\* The backend operation of the call never returns: cmd.CombinedOutput()
\* waits for a git subprocess that does not end, and nothing cancels it.
BackendHangsAt(p) ==
    /\ \/ pc[p] = "backend"
       \/ pc[p] = "called" /\ req[p].tool = "git_init"
    /\ pc' = [pc EXCEPT ![p] = "hung"]
    /\ UNCHANGED <<repoPaths, dotGit, req, loc>>
    /\ ConcFrame

BackendHangs == \E p \in Procs : BackendHangsAt(p)

\* s.repoPaths = append(s.repoPaths, absPath): the slice is read ...
AppendBeginAt(p) ==
    /\ pc[p] = "append"
    /\ loc' = [loc EXCEPT ![p] = [slice |-> repoPaths, err |-> ""]]
    /\ pc' = [pc EXCEPT ![p] = "appending"]
    /\ UNCHANGED <<repoPaths, dotGit, req>>
    /\ ConcFrame

AppendBegin == \E p \in Procs : AppendBeginAt(p)

\* ... and the slice that was read, with absPath added, is stored.
AppendEndAt(p) ==
    /\ pc[p] = "appending"
    /\ repoPaths' = Append(loc[p].slice, Abs(req[p].path))
    /\ pc' = [pc EXCEPT ![p] = "reply"]
    /\ UNCHANGED <<dotGit, req, loc>>
    /\ ConcFrame

AppendEnd == \E p \in Procs : AppendEndAt(p)

\* The handler returns its result.
Reply ==
    \E p \in Procs :
       /\ pc[p] = "reply"
       /\ pc' = [pc EXCEPT ![p] = "idle"]
       /\ req' = [req EXCEPT ![p] = NoReq]
       /\ loc' = [loc EXCEPT ![p] = NoLoc]
       /\ UNCHANGED <<repoPaths, dotGit>>
       /\ ConcFrame

NextConc ==
    \/ Deliver
    \/ ReadBegin
    \/ ReadEnd
    \/ StatusBackend
    \/ InitBackend
    \/ BackendHangs
    \/ AppendBegin
    \/ AppendEnd
    \/ Reply

SpecConc == InitConc /\ [][NextConc]_vars

\* C13: while a goroutine is appending to the registry, no other goroutine is
\* reading the registry (containment check, default lookup, listing) or
\* appending to it.
C13_AppendExclusive ==
    \A p, q \in Procs :
       (p # q /\ pc[p] = "appending") => pc[q] \notin {"reading", "appending"}

(***************************************************************************)
(* Repository content: branches, commits and the remote                    *)
(*                                                                         *)
(* One repository that the path guard has resolved, cloned from the remote *)
(* "origin", with a clean working tree.  Commits are numbered; a branch    *)
(* is a name pointing at a commit.                                         *)
(***************************************************************************)

\* Bound on the number of commits made.
MaxCommits == 2

\* The remote argument of git_push: omitted, the configured remote, or a name
\* that is no remote of the repository.
RemoteArgs == {"", "origin", "nowhere"}

\* An optional branch argument: omitted or a branch name.
BranchArgs == {""} \cup BranchNames

\* Commit a is commit b or one of its ancestors.
RECURSIVE IsAncestor(_, _)
IsAncestor(a, b) ==
    IF b = 0 THEN FALSE
    ELSE IF a = b THEN TRUE
    ELSE IsAncestor(a, parent[b])

\* What the remote does with a push of local branch b to its branch b:
\* nothing when it is already there, a fast-forward or a new branch when the
\* remote's branch is an ancestor or missing, a rejection otherwise.
ReceivePush(b) ==
    IF heads[b] = 0 THEN [status |-> "error", origin |-> origin]
    ELSE IF origin[b] = heads[b] THEN [status |-> "up-to-date", origin |-> origin]
    ELSE IF origin[b] = 0 \/ IsAncestor(origin[b], heads[b])
         THEN [status |-> "pushed", origin |-> [origin EXCEPT ![b] = heads[b]]]
         ELSE [status |-> "error", origin |-> origin]

\* git push <args>: the first argument names the repository (the default
\* remote when there is none), the second the branch (the current branch
\* when there is none).
RunGitPush(args) ==
    LET repository == IF Len(args) >= 1 THEN args[1] ELSE "origin"
        refspec == IF Len(args) >= 2 THEN args[2] ELSE head
    IN IF repository # "origin" THEN [status |-> "error", origin |-> origin]
       ELSE ReceivePush(refspec)

\* ShellGitOperations.PushChanges: the set of (result, remote state) pairs.
ShellPushChanges(remote, branch) ==
    LET args == (IF remote # "" THEN <<remote>> ELSE <<>>)
                \o (IF branch # "" THEN <<branch>> ELSE <<>>)
        r == RunGitPush(args)
    IN { IF r.status = "error"
         THEN [err |-> TRUE, text |-> "failed to push changes", textRemote |-> "",
               textBranch |-> "", origin |-> r.origin]
         ELSE IF r.status = "up-to-date"
         THEN [err |-> FALSE, text |-> "Everything up-to-date", textRemote |-> "",
               textBranch |-> "", origin |-> r.origin]
         ELSE [err |-> FALSE, text |-> "Successfully pushed to", textRemote |-> remote,
               textBranch |-> branch, origin |-> r.origin] }

\* GoGitOperations.PushChanges.  repo.Push with a refspec whose source branch
\* does not exist either fails or reports that there is nothing to push.
GoGitPushChanges(remote, branch) ==
    LET remoteName == IF remote = "" THEN "origin" ELSE remote
        refspec == IF branch = "" THEN head ELSE branch
        failed == [err |-> TRUE, text |-> "failed to push", textRemote |-> "",
                   textBranch |-> "", origin |-> origin]
        upToDate == [err |-> FALSE, text |-> "Everything up-to-date", textRemote |-> "",
                     textBranch |-> "", origin |-> origin]
    IN IF remoteName # "origin" THEN {failed}
       ELSE IF heads[refspec] = 0 THEN {failed, upToDate}
       ELSE LET r == ReceivePush(refspec)
            IN { IF r.status = "error" THEN failed
                 ELSE IF r.status = "up-to-date" THEN upToDate
                 ELSE [err |-> FALSE, text |-> "Successfully pushed to",
                       textRemote |-> remoteName, textBranch |-> branch,
                       origin |-> r.origin] }

\* ShellGitOperations.CreateBranch: git branch <name> [<base>] refuses an
\* existing name and a base that names no commit.
ShellCreateBranch(branchName, baseBranch) ==
    LET start == IF baseBranch # "" THEN heads[baseBranch] ELSE heads[head]
    IN IF heads[branchName] # 0 \/ start = 0
       THEN [err |-> TRUE, heads |-> heads]
       ELSE [err |-> FALSE, heads |-> [heads EXCEPT ![branchName] = start]]

\* A branch creation that always starts the branch at HEAD.
GoGitCreateBranch_FromHead(branchName, baseBranch) ==
    LET baseRef == heads[head]
    IN IF baseRef = 0
       THEN [err |-> TRUE, heads |-> heads]
       ELSE [err |-> FALSE, heads |-> [heads EXCEPT ![branchName] = baseRef]]

\* GoGitOperations.CreateBranch: the base is a branch reference or HEAD, and
\* repo.Storer.SetReference stores the branch whether or not it exists.
GoGitCreateBranch(branchName, baseBranch) ==
    LET baseRef == IF baseBranch # "" THEN heads[baseBranch] ELSE heads[head]
    IN IF baseRef = 0
       THEN [err |-> TRUE, heads |-> heads]
       ELSE [err |-> FALSE, heads |-> [heads EXCEPT ![branchName] = baseRef]]

\* ShellGitOperations.CheckoutBranch: git checkout <name>.
ShellCheckoutBranch(branchName) ==
    IF heads[branchName] = 0 THEN [err |-> TRUE, head |-> head]
    ELSE [err |-> FALSE, head |-> branchName]

\* GoGitOperations.CheckoutBranch: wt.Checkout of the branch reference.
GoGitCheckoutBranch(branchName) ==
    IF heads[branchName] = 0 THEN [err |-> TRUE, head |-> head]
    ELSE [err |-> FALSE, head |-> branchName]

\* The longest list of files given to git_add.
MaxFiles == 2

\* The files of the working tree, each with a change that is not staged yet.
WorkTreeFiles == {"f1", "f2"}

\* The entries of the files argument of git_add after the split at commas
\* and the trimming: the files of the working tree and a name that matches
\* no file.
FileArgs == WorkTreeFiles \cup {"nope"}

\* The index after git add / wt.Add of one file that exists.
AddToIndex(index, file) == index \cup {file}

\* ShellGitOperations.AddFiles: one git add <files...>, which stages nothing
\* when a pathspec matches no file.
ShellAddFiles(files) ==
    IF \E i \in 1..Len(files) : files[i] \notin WorkTreeFiles
    THEN [err |-> TRUE, staged |-> staged]
    ELSE [err |-> FALSE, staged |-> staged \cup Range(files)]

\* GoGitOperations.AddFiles: wt.Add file by file, each writing the index;
\* the loop returns at the first error with the index as it is by then.
RECURSIVE GoGitAddFiles(_, _)
GoGitAddFiles(files, index) ==
    IF files = <<>> THEN [err |-> FALSE, staged |-> index]
    ELSE IF Head(files) \notin WorkTreeFiles THEN [err |-> TRUE, staged |-> index]
    ELSE GoGitAddFiles(Tail(files), AddToIndex(index, Head(files)))

\* A repository cloned from origin with one commit on main, pushed or not;
\* write access is enabled.
InitContent ==
    /\ dotGit = [p \in AbsPaths |-> IF p = Cwd THEN "dir" ELSE "none"]
    /\ repoPaths = <<Cwd>>
    /\ writeAccess = TRUE
    /\ gitOps \in {"shell", "go-git"}
    /\ tools = RegisteredTools(writeAccess)
    /\ last = NoCall
    /\ justInit = <<>>
    /\ allRepoPaths = <<>>
    /\ phase = "serving"
    /\ NoWorkers
    /\ NoSetup
    /\ parent = <<0>>
    /\ heads = [NoRefs EXCEPT !["main"] = 1]
    /\ head = "main"
    /\ origin \in {NoRefs, [NoRefs EXCEPT !["main"] = 1]}
    /\ out = NoOut
    /\ pre = NoPre
    /\ staged = {}

\* What the operations on the content leave alone.
ContentFrame == UNCHANGED <<serverVars, concVars, setupVars>>

Snapshot == [heads |-> heads, head |-> head, origin |-> origin, staged |-> staged]

\* gitCommitHandler with a message, on a change made in the working tree: a
\* new commit on the current branch.
ContentCommit ==
    /\ Len(parent) < MaxCommits
    /\ parent' = Append(parent, heads[head])
    /\ heads' = [heads EXCEPT ![head] = Len(parent) + 1]
    /\ out' = [NoOut EXCEPT !.op = "CommitChanges", !.text = "commit result"]
    /\ pre' = Snapshot
    /\ staged' = {}
    /\ UNCHANGED <<head, origin>>
    /\ ContentFrame

\* gitAddHandler: the files argument, split at commas and trimmed.
ContentAdd ==
    /\ \E files \in SeqUpTo(FileArgs, MaxFiles) \ {<<>>} :
          LET r == IF gitOps = "shell" THEN ShellAddFiles(files)
                   ELSE GoGitAddFiles(files, staged)
          IN /\ staged' = r.staged
             /\ out' = [NoOut EXCEPT !.op = "AddFiles", !.files = files,
                                      !.isError = r.err,
                                      !.text = IF r.err THEN "Failed to add files"
                                               ELSE "Files staged successfully"]
    /\ pre' = Snapshot
    /\ UNCHANGED <<heads, head, origin, parent>>
    /\ ContentFrame

\* gitCreateBranchHandler: branch_name and the optional base_branch.
ContentCreateBranch ==
    /\ \E branchName \in BranchNames, baseBranch \in BranchArgs :
          LET r == IF gitOps = "shell" THEN ShellCreateBranch(branchName, baseBranch)
                   ELSE GoGitCreateBranch(branchName, baseBranch)
          IN /\ heads' = r.heads
             /\ out' = [NoOut EXCEPT !.op = "CreateBranch", !.branch = branchName,
                                      !.base = baseBranch, !.isError = r.err,
                                      !.text = IF r.err THEN "Failed to create branch"
                                               ELSE "Created branch"]
    /\ pre' = Snapshot
    /\ UNCHANGED <<head, origin, parent, staged>>
    /\ ContentFrame

\* gitCheckoutHandler: branch_name.
ContentCheckout ==
    /\ \E branchName \in BranchNames :
          LET r == IF gitOps = "shell" THEN ShellCheckoutBranch(branchName)
                   ELSE GoGitCheckoutBranch(branchName)
          IN /\ head' = r.head
             /\ out' = [NoOut EXCEPT !.op = "CheckoutBranch", !.branch = branchName,
                                      !.isError = r.err,
                                      !.text = IF r.err THEN "Failed to checkout branch"
                                               ELSE "Switched to branch",
                                      !.followsCreate = /\ out.op = "CreateBranch"
                                                        /\ ~out.isError
                                                        /\ out.branch = branchName]
    /\ pre' = Snapshot
    /\ UNCHANGED <<heads, origin, parent, staged>>
    /\ ContentFrame

\* gitPushHandler with write access on: the optional remote and branch.
ContentPush ==
    /\ writeAccess
    /\ \E remote \in RemoteArgs, branch \in BranchArgs :
          \E r \in (IF gitOps = "shell" THEN ShellPushChanges(remote, branch)
                    ELSE GoGitPushChanges(remote, branch)) :
             /\ origin' = r.origin
             /\ out' = [NoOut EXCEPT !.op = "PushChanges", !.remote = remote,
                                      !.branch = branch, !.isError = r.err,
                                      !.text = IF r.err THEN "Failed to push changes"
                                               ELSE r.text,
                                      !.textRemote = r.textRemote,
                                      !.textBranch = r.textBranch]
    /\ pre' = Snapshot
    /\ UNCHANGED <<heads, head, parent, staged>>
    /\ ContentFrame

\* Someone else pushes a new commit to a branch of the remote.
RemoteAdvance ==
    /\ Len(parent) < MaxCommits
    /\ \E b \in BranchNames :
          /\ origin[b] # 0
          /\ parent' = Append(parent, origin[b])
          /\ origin' = [origin EXCEPT ![b] = Len(parent) + 1]
    /\ out' = NoOut
    /\ pre' = NoPre
    /\ UNCHANGED <<heads, head, staged>>
    /\ ContentFrame

NextContent ==
    \/ ContentCommit
    \/ ContentAdd
    \/ ContentCreateBranch
    \/ ContentCheckout
    \/ ContentPush
    \/ RemoteAdvance

SpecContent == InitContent /\ [][NextContent]_vars

\* The call in out is a git_push to the remote origin, named or by default.
PushToOrigin == out.op = "PushChanges" /\ writeAccess /\ out.remote \in {"", "origin"}

\* The branch that call pushes: the one named, or by default the branch that
\* was current.
PushedBranch == IF out.branch = "" THEN pre.head ELSE out.branch

\* C18: with write access on, a git_push of a branch that origin already has
\* at the same commit gives a success result with the up-to-date text, under
\* both backends, and the remote's branches stay as they were.
C18_PushUpToDate ==
    (PushToOrigin /\ pre.heads[PushedBranch] # 0
       /\ pre.origin[PushedBranch] = pre.heads[PushedBranch])
    => /\ ~out.isError
       /\ out.text = "Everything up-to-date"
       /\ origin = pre.origin

\* C19: with write access on, a git_push of a branch that is ahead of its
\* branch on origin (or new to origin) succeeds under both backends with
\* "Successfully pushed to <remote>/<branch>" naming the remote and the branch
\* pushed, defaults included, and afterwards origin's branch is at the local
\* branch's commit.
C19_PushNamesRemoteAndBranch ==
    (PushToOrigin /\ pre.heads[PushedBranch] # 0
       /\ pre.origin[PushedBranch] # pre.heads[PushedBranch]
       /\ (pre.origin[PushedBranch] = 0
             \/ IsAncestor(pre.origin[PushedBranch], pre.heads[PushedBranch])))
    => /\ ~out.isError
       /\ out.text = "Successfully pushed to"
       /\ out.textRemote = "origin"
       /\ out.textBranch = PushedBranch
       /\ origin[PushedBranch] = heads[PushedBranch]

\* The commit a successful git_create_branch in out had to start from.
CreatedFrom == IF out.base = "" THEN pre.heads[pre.head] ELSE pre.heads[out.base]

MaxTools == 2

\* The tools of the read-only tier.
GetReadOnlyToolNames ==
    {"git_status", "git_diff_unstaged", "git_diff_staged", "git_diff", "git_log", "git_show"}

\* A local-only tier that takes in the push tool.
GetLocalOnlyToolNames_WithPush ==
    {"git_init", "git_create_branch", "git_checkout", "git_commit", "git_add", "git_reset",
     "git_apply_patch_string", "git_apply_patch_file", "git_push"}
        \cup GetReadOnlyToolNames

\* The tools of the local-only tier: the local tools, then every key of the
\* read-only tier added to the map.
GetLocalOnlyToolNames ==
    {"git_init", "git_create_branch", "git_checkout", "git_commit", "git_add", "git_reset",
     "git_apply_patch_string", "git_apply_patch_file"}
        \cup GetReadOnlyToolNames

\* The entries a --tool list is made of, as strings.Split leaves them.
ToolEntries == {"", "cline", " Cline", "roo-code", "invalid-tool"}

\* strings.TrimSpace on the entries.
TrimSpace(t) == IF t = " Cline" THEN "Cline" ELSE t

\* strings.ToLower on the trimmed entries.
ToLower(t) == IF t = "Cline" THEN "cline" ELSE t

\* The values of --auto-approve: none, the two presets, an explicit list.
AutoApproveFlags == {"", "allow-read-only", "allow-local-only", "git_status, git_push"}

\* strings.Split(autoApprove, ",") with each element trimmed and the empty
\* ones dropped, for the explicit list of the model.
SplitTrimmed(flag) ==
    IF flag = "git_status, git_push" THEN {"git_status", "git_push"} ELSE {flag}

\* setupTool's autoApproveTools.
autoApproveTools(flag) ==
    IF flag = "" THEN {}
    ELSE IF flag = "allow-read-only" THEN GetReadOnlyToolNames
    ELSE IF flag = "allow-local-only" THEN GetLocalOnlyToolNames
    ELSE SplitTrimmed(flag)

\* setupTool: the "git" entry of the assistant's settings file is replaced,
\* whatever it held before.
setupTool(files, assistant, flag) ==
    [files EXCEPT ![assistant] = [exists |-> TRUE, autoApprove |-> autoApproveTools(flag)]]

\* A settings file left by an earlier run that pre-approved the push tool.
OldSettings == [a \in Assistants |-> [exists |-> TRUE, autoApprove |-> {"git_push"}]]

InitSetup ==
    /\ dotGit = [p \in AbsPaths |-> "none"]
    /\ repoPaths = <<>>
    /\ writeAccess = FALSE
    /\ gitOps = "shell"
    /\ tools = {}
    /\ last = NoCall
    /\ justInit = <<>>
    /\ allRepoPaths = <<>>
    /\ phase = "setup"
    /\ NoWorkers
    /\ NoContent
    /\ setupTools \in SeqUpTo(ToolEntries, MaxTools) \ {<<>>}
    /\ autoApprove \in AutoApproveFlags
    /\ toolIdx = 1
    /\ hasErrors = FALSE
    /\ processed = <<>>
    /\ settings \in {NoSettings, OldSettings}
    /\ exitCode = "preparing"

SetupFrame == UNCHANGED <<serverVars, concVars, contentVars, setupTools, autoApprove>>

\* The home directory, the servers directory and the binary: any of them
\* failing ends the command with code 1 before the list is looked at.
SetupPrepare ==
    /\ exitCode = "preparing"
    /\ exitCode' \in {"running", "1"}
    /\ UNCHANGED <<toolIdx, hasErrors, processed, settings>>
    /\ SetupFrame

\* An iteration of the loop that gives up the list at the first error.
SetupLoop_StopAtError ==
    /\ exitCode = "running"
    /\ toolIdx <= Len(setupTools)
    /\ LET t == TrimSpace(setupTools[toolIdx])
           done(what, files, errs) ==
               /\ processed' = Append(processed, what)
               /\ settings' = files
               /\ hasErrors' = errs
               /\ toolIdx' = IF errs THEN Len(setupTools) + 1 ELSE toolIdx + 1
       IN  IF t = "" THEN done("skipped", settings, hasErrors)
           ELSE IF ToLower(t) \notin Assistants THEN done("unsupported", settings, TRUE)
           ELSE \/ done("ok", setupTool(settings, ToLower(t), autoApprove), hasErrors)
                \/ done("failed", settings, TRUE)
    /\ UNCHANGED exitCode
    /\ SetupFrame

\* One iteration of the loop over the list: an empty entry is skipped, an
\* unknown assistant and a failed setupTool set hasErrors, and the loop goes
\* on to the next entry in every case.
SetupLoop ==
    /\ exitCode = "running"
    /\ toolIdx <= Len(setupTools)
    /\ LET t == TrimSpace(setupTools[toolIdx])
           done(what, files, errs) ==
               /\ processed' = Append(processed, what)
               /\ settings' = files
               /\ hasErrors' = errs
               /\ toolIdx' = toolIdx + 1
       IN  IF t = "" THEN done("skipped", settings, hasErrors)
           ELSE IF ToLower(t) \notin Assistants THEN done("unsupported", settings, TRUE)
           ELSE \/ done("ok", setupTool(settings, ToLower(t), autoApprove), hasErrors)
                \/ done("failed", settings, TRUE)
    /\ UNCHANGED exitCode
    /\ SetupFrame

\* After the loop: os.Exit(1) if hasErrors, a normal return otherwise.
SetupExit ==
    /\ exitCode = "running"
    /\ toolIdx > Len(setupTools)
    /\ exitCode' = IF hasErrors THEN "1" ELSE "0"
    /\ UNCHANGED <<toolIdx, hasErrors, processed, settings>>
    /\ SetupFrame

NextSetup == SetupPrepare \/ SetupLoop \/ SetupExit

SpecSetup == InitSetup /\ [][NextSetup]_vars

\* The assistants whose settings file this run has written.
WrittenNow ==
    {ToLower(TrimSpace(setupTools[i])) : i \in {j \in 1..Len(processed) : processed[j] = "ok"}}

\* C21: the read-only tier is exactly the six inspection tools, the
\* local-only tier is exactly that tier plus the eight local tools, git_push
\* is in neither, and a settings file written under either preset lists
\* exactly the preset's tier, so it never pre-approves git_push.
C21_TiersFixedWithoutPush ==
    /\ GetReadOnlyToolNames =
          {"git_status", "git_diff_unstaged", "git_diff_staged", "git_diff", "git_log",
           "git_show"}
    /\ GetLocalOnlyToolNames =
          GetReadOnlyToolNames \cup
              {"git_init", "git_create_branch", "git_checkout", "git_commit", "git_add",
               "git_reset", "git_apply_patch_string", "git_apply_patch_file"}
    /\ "git_push" \notin GetReadOnlyToolNames \cup GetLocalOnlyToolNames
    /\ \A a \in WrittenNow :
          /\ autoApprove = "allow-read-only" =>
                settings[a].autoApprove = GetReadOnlyToolNames
          /\ autoApprove = "allow-local-only" =>
                settings[a].autoApprove = GetLocalOnlyToolNames
          /\ autoApprove \in {"allow-read-only", "allow-local-only"} =>
                "git_push" \notin settings[a].autoApprove

\* A file that pre-approved git_push has been rewritten under the local-only
\* preset.
C21_Witness ==
    /\ autoApprove = "allow-local-only"
    /\ "cline" \in WrittenNow
    /\ exitCode = "0"
    /\ settings["roo-code"].autoApprove = {"git_push"}

\* The entries of the list that name a tool.
Listed == {i \in 1..Len(setupTools) : TrimSpace(setupTools[i]) # ""}

\* C23: the list is processed in order; after an unsupported tool or a
\* failed setup every remaining entry is still processed (a supported one
\* whose setup succeeds gets its settings file), the exit code is then
\* non-zero, and the exit code is 0 only if every listed tool was set up.
C23_SetupContinuesAfterError ==
    /\ Len(processed) = toolIdx - 1
    /\ \A i \in 1..Len(processed) :
          /\ processed[i] = "skipped" <=> i \notin Listed
          /\ processed[i] = "unsupported" =>
                ToLower(TrimSpace(setupTools[i])) \notin Assistants
          /\ processed[i] = "ok" => settings[ToLower(TrimSpace(setupTools[i]))].exists
    /\ hasErrors <=> \E i \in 1..Len(processed) : processed[i] \in {"unsupported", "failed"}
    /\ (exitCode \in {"0", "1"} /\ hasErrors) =>
          /\ Len(processed) = Len(setupTools)
          /\ exitCode = "1"
    /\ exitCode = "0" =>
          /\ Len(processed) = Len(setupTools)
          /\ \A i \in Listed : processed[i] = "ok"

\* An unsupported tool came first, the tool after it was still set up, and
\* the command ended with code 1.
C23_Witness ==
    /\ exitCode = "1"
    /\ Len(setupTools) = 2
    /\ processed = <<"unsupported", "ok">>
    /\ settings["cline"].exists

\* C24: the guard resolves the path to its absolute form, then checks
\* containment in the registry, then the Git metadata: a non-empty path under
\* a registered root without a .git entry is rejected with "not a git
\* repository" and no backend operation runs, and a path that fails the
\* containment check is answered with access denied, with or without a .git
\* entry.
C24_GuardOrder ==
    (GuardReached /\ LastRequested # <<>>) =>
        LET absPath == Abs(LastRequested)
        IN  /\ ~isPathInAllowedRepos(absPath) =>
                  /\ last.isError
                  /\ last.pathErr = "access denied - path outside allowed repositories"
                  /\ last.path = absPath
                  /\ last.backend = NoBackend
            /\ (UnderRegistered(absPath) /\ dotGit[absPath] = "none") =>
                  /\ last.isError
                  /\ last.pathErr = "not a git repository"
                  /\ last.path = absPath
                  /\ last.backend = NoBackend

\* A directory below a registered root, without a .git entry, was asked for
\* and rejected.
C24_Witness ==
    /\ GuardReached
    /\ last.pathErr = "not a git repository"
    /\ UnderRegistered(last.path)
    /\ \A i \in 1..Len(repoPaths) : last.path # repoPaths[i]
    /\ dotGit[last.path] = "none"

\* A path outside the registry that has a .git directory was denied.
C24_DeniedWithMetadata ==
    /\ GuardReached
    /\ last.pathErr = "access denied - path outside allowed repositories"
    /\ dotGit[last.path] = "dir"

\* A step in which the serving gateway answers a tool call.
ToolCallStep == phase = "serving" /\ last = NoCall /\ last' # NoCall

\* C25: a tool call changes the registry only when it is a git_init with a
\* non-empty repo_path whose InitRepo succeeded, and then by appending the
\* initialised path; every other call, a git_init with an empty repo_path
\* and a git_init whose InitRepo failed leave the registry as it was; no
\* call changes the write-access flag or the backend selection.
C25_OnlySuccessfulInitChangesState ==
    [][ToolCallStep =>
          /\ writeAccess' = writeAccess
          /\ gitOps' = gitOps
          /\ tools' = tools
          /\ IF /\ last'.tool = "git_init"
                /\ AsString(last'.args.repo_path).s # <<>>
                /\ last'.backend = [op |-> "InitRepo", path |-> last'.path, ok |-> TRUE]
             THEN repoPaths' = Append(repoPaths, last'.path)
             ELSE repoPaths' = repoPaths]_vars

\* A git_init whose InitRepo failed has been answered while a repository
\* was registered.
C25_Witness ==
    /\ phase = "serving"
    /\ last.tool = "git_init"
    /\ last.isError
    /\ last.backend = [op |-> "InitRepo", path |-> last.path, ok |-> FALSE]
    /\ repoPaths # <<>>
    /\ \A i \in 1..Len(repoPaths) : repoPaths[i] # last.path

\* C27: once the registry is non-empty its first entry, the default
\* repository, is the same path after every later step, successful git_init
\* calls included; a registry that was empty gets its first entry from a
\* successful git_init, whose path is then the default; and the guard gives
\* that first entry to a call without repo_path.
C27_DefaultIsStable ==
    [][phase = "serving" =>
          /\ repoPaths # <<>> =>
                /\ repoPaths' # <<>>
                /\ repoPaths'[1] = repoPaths[1]
                /\ validateRepoPath(<<>>).path = repoPaths[1]
          /\ (repoPaths = <<>> /\ repoPaths' # <<>>) =>
                /\ last'.tool = "git_init"
                /\ ~last'.isError
                /\ repoPaths' = <<last'.path>>]_vars

\* A git_init has succeeded on a second path while the registry had its
\* default, which is still the first entry.
C27_Witness ==
    /\ phase = "serving"
    /\ Len(repoPaths) = 2
    /\ repoPaths[1] # repoPaths[2]
    /\ last.tool = "git_init"
    /\ ~last.isError
    /\ last.path = repoPaths[2]
    /\ dotGit[repoPaths[1]] = "dir"

\* The tools registered with repo_path declared mcp.Required() whatever the
\* registry holds.
RepoPathRequired ==
    { "git_diff", "git_commit", "git_add", "git_reset", "git_log", "git_create_branch",
      "git_checkout", "git_show", "git_push", "git_apply_patch_string",
      "git_apply_patch_file" }

\* C26: a call of a tool whose schema declares repo_path as required, in
\* which repo_path is absent or is not a string, is answered with an error
\* result and runs no backend operation on the default repository.
C26_RequiredRepoPathEnforced ==
    (last.tool \in RepoPathRequired /\ last.args.repo_path.kind # "str") =>
        /\ last.isError
        /\ last.backend = NoBackend

\* The next step of the handler that goroutine p runs, up to its result,
\* where err is the answer of the path guard to its call.
HandlerStep(p, err) ==
    \/ ReadBeginWith(p, err)
    \/ ReadEndAt(p)
    \/ StatusBackendAt(p)
    \/ InitBackendAt(p)
    \/ AppendBeginAt(p)
    \/ AppendEndAt(p)

\* The handler of goroutine p can take its next step.
CanStep(p) == \E err \in {GuardErr(p)} : ENABLED HandlerStep(p, err)

\* C22: while the backend operation of one call never returns, every other
\* delivered call that has not reached its result, a call on the same
\* repository and a git_init included, can take the next step of its
\* handler: no call waits for something the hung call holds.
C22_HungCallBlocksNoOther ==
    \A p, q \in Procs :
       (p # q /\ pc[p] = "hung" /\ pc[q] \in {"called", "reading", "backend", "append",
                                              "appending"})
          => CanStep(q)

\* A git_status is hung in its backend, and a later git_status on the same
\* repository has come to its result through its own backend operation.
C22_Witness ==
    \E p, q \in Procs :
       /\ p # q
       /\ pc[p] = "hung"
       /\ req[p].tool = "git_status"
       /\ pc[q] = "reply"
       /\ req[q] = req[p]
       /\ loc[q].err = ""

\* Goroutines p and q have both come to the result of a successful git_init,
\* at distinct paths, and neither has been answered yet.
BothInitsSucceeded(p, q) ==
    /\ p # q
    /\ pc[p] = "reply" /\ req[p].tool = "git_init" /\ loc[p].err = ""
    /\ pc[q] = "reply" /\ req[q].tool = "git_init" /\ loc[q].err = ""
    /\ Abs(req[p].path) # Abs(req[q].path)

\* C28: after two git_init calls at distinct paths have run at the same time
\* and both succeeded, the registry holds both paths and the path guard
\* accepts both.
C28_NoAppendLost ==
    \A p, q \in Procs :
       BothInitsSucceeded(p, q) =>
          /\ Abs(req[p].path) \in Range(repoPaths)
          /\ Abs(req[q].path) \in Range(repoPaths)
          /\ validateRepoPath(req[p].path).err = ""
          /\ validateRepoPath(req[q].path).err = ""

\* C29: under both backends a git_add that returns an error result has
\* staged none of the files of its list: the index is as it was before the
\* call.
C29_AddAllOrNothing ==
    (out.op = "AddFiles" /\ out.isError) => staged = pre.staged

\* C30: under both backends a git_create_branch whose branch_name already
\* exists returns an error result, and the branch points at the commit it
\* pointed at before the call.
C30_CreateNeverMovesBranch ==
    (out.op = "CreateBranch" /\ pre.heads[out.branch] # 0) =>
        /\ out.isError
        /\ heads[out.branch] = pre.heads[out.branch]

\* A git_create_branch has moved an existing branch to another commit.
C30_BranchMoved ==
    /\ out.op = "CreateBranch"
    /\ pre.heads[out.branch] # 0
    /\ heads[out.branch] # pre.heads[out.branch]

====
